---- MODULE Spec2Model ----
(***************************************************************************)
(* Model of builder_pattern: the builder_meta metaclass (registration of   *)
(* the build_step / process_step descriptors of a concrete Builder type    *)
(* into the two executor-factory tables) and Builder.build() (the paired   *)
(* build -> process loop over the filtered and sorted step keys).          *)
(*                                                                         *)
(* User code is opaque to the engine.  A build function returns a product  *)
(* term [fn, key] naming the function and the step key it was handed (0    *)
(* when it was called without one); a process function returns the state   *)
(* it received extended by the term [fn, ip, key].  A state is therefore   *)
(* the history of the folds applied to the initial state <<>>.             *)
(***************************************************************************)
EXTENDS Integers, Sequences, FiniteSets, TLC

\* ---------------------------------------------------------------- bounds
\* Step keys are 1..MaxKey.
MaxKey == 2

Keys == 1..MaxKey

\* The names of the attributes of the concrete type that may carry a step, in
\* the (sorted) order dir(cls) lists them.
MemberNames == <<"a", "b", "c">>

VARIABLES
    members,      \* the step descriptors of the type, in dir(cls) order
    decorators,   \* the decorators written above each member, innermost first
    namespace,    \* the order the class body declared them in
    overrides,    \* the Builder hooks the concrete type overrides
    pc,           \* position in builder_meta.__init__ / Builder.build
    attr_index,   \* index of the attribute the dir(cls) loop is at
    default_process_executor_factory,
    build_executor_factories,
    process_executor_factories,
    error,        \* the exception raised, "" when none
    state, step_keys, key_index, intermediate_product, product,
    hook,         \* which filter_and_sort_process_step_keys ran
    log,          \* the user functions invoked, in order
    parked,       \* the build() call of a second instance, while it is not running
    base          \* the type the type under registration derives from, if any

vars == <<members, decorators, namespace, overrides, pc, attr_index,
          default_process_executor_factory, build_executor_factories,
          process_executor_factories, error, state, step_keys, key_index,
          intermediate_product, product, hook, log, parked, base>>

typeVars == <<members, decorators, namespace, overrides, base>>
tableVars == <<default_process_executor_factory, build_executor_factories,
               process_executor_factories>>
runVars == <<state, step_keys, key_index, intermediate_product, product, hook, log>>

\* ------------------------------------------------------------- sequences
Range(s) == {s[i] : i \in DOMAIN s}

IsInjective(s) == \A i, j \in DOMAIN s : s[i] = s[j] => i = j

SeqsUpTo(S, n) == UNION {[1..k -> S] : k \in 0..n}

\* ------------------------------------------------- dict (insertion-ordered)
\* A dict is the sequence of its items [key, factory] in insertion order.
DictKeys(d) == [i \in DOMAIN d |-> d[i].key]

DictHas(d, k) == \E i \in DOMAIN d : d[i].key = k

DictGet(d, k) == d[CHOOSE i \in DOMAIN d : d[i].key = k].factory

DictSet(d, k, f) ==
    IF DictHas(d, k)
    THEN [i \in DOMAIN d |-> IF d[i].key = k THEN [key |-> k, factory |-> f] ELSE d[i]]
    ELSE Append(d, [key |-> k, factory |-> f])

\* Faulty variant of DictSetDefault: plain assignment, which overwrites.
DictSetOverwriting(d, k, f) ==
    IF DictHas(d, k)
    THEN [i \in DOMAIN d |-> IF d[i].key = k THEN [key |-> k, factory |-> f] ELSE d[i]]
    ELSE Append(d, [key |-> k, factory |-> f])

\* Faulty variant of DictSetDefault: a new key goes in front of the others.
DictSetDefaultFirst(d, k, f) ==
    IF DictHas(d, k) THEN d ELSE <<[key |-> k, factory |-> f]>> \o d

\* dict.setdefault: a key the dict has keeps its item, a new key goes last.
DictSetDefault(d, k, f) == IF DictHas(d, k) THEN d ELSE Append(d, [key |-> k, factory |-> f])

\* ------------------------------------------------------ step descriptors
\* A member of the class: a build_step or process_step descriptor wrapping a
\* function of `params` parameters (self included), or any other attribute.
BuildStep(keys, n) ==
    [kind |-> "build_step", step_keys |-> keys, default |-> FALSE, params |-> n]

ProcessStep(keys, dflt, n) ==
    [kind |-> "process_step", step_keys |-> keys, default |-> dflt, params |-> n]

Method == [kind |-> "method", step_keys |-> <<>>, default |-> FALSE, params |-> 1]

IsStep(attr) == attr.kind \in {"build_step", "process_step"}

\* step.py 22-34, _step.__call__: a decorator applied to a step definition
\* extends that definition's list of keys by its own and returns that
\* definition; applied to a plain function it wraps the function.
step_call(self, func) ==
    IF IsStep(func)
    THEN [func EXCEPT !.step_keys = func.step_keys \o self.step_keys]
    ELSE [self EXCEPT !.params = func.params]

\* The decorators above a function, applied from the innermost outwards.
RECURSIVE Decorated(_, _)
Decorated(func, decs) ==
    IF decs = <<>>
    THEN func
    ELSE Decorated(step_call(Head(decs), func), Tail(decs))

\* The single decorator a member was written with; none above a plain method.
WrittenAs(attr) == IF IsStep(attr) THEN <<[attr EXCEPT !.params = 0]>> ELSE <<>>

\* ------------------------------------------------- builder_meta.update_map
\* The loop over step.step_keys: the table after it, and whether it raised
\* the "already in use" ValueError (the keys before the duplicate stay in).
\* Faulty variant of InsertStepKeys: the "already in use" check is missing.
RECURSIVE InsertStepKeysUnchecked(_, _, _, _)
InsertStepKeysUnchecked(executor_factories, keys, factory, i) ==
    IF i > Len(keys)
    THEN [table |-> executor_factories, raised |-> FALSE]
    ELSE InsertStepKeysUnchecked(DictSet(executor_factories, keys[i], factory),
                                 keys, factory, i + 1)

RECURSIVE InsertStepKeys(_, _, _, _)
InsertStepKeys(executor_factories, keys, factory, i) ==
    IF i > Len(keys)
    THEN [table |-> executor_factories, raised |-> FALSE]
    ELSE IF DictHas(executor_factories, keys[i])
         THEN [table |-> executor_factories, raised |-> TRUE]
         ELSE InsertStepKeys(DictSet(executor_factories, keys[i], factory),
                             keys, factory, i + 1)

\* Faulty variant of SelectsBuildTable: one table for the steps of both kinds.
SelectsBuildTableAlways(step) == TRUE

\* The table update_map picks for a step.
SelectsBuildTable(step) == step.kind = "build_step"

update_map(builds, processes, step, factory) ==
    IF SelectsBuildTable(step)
    THEN LET r == InsertStepKeys(builds, step.step_keys, factory, 1)
         IN  [builds |-> r.table, processes |-> processes, raised |-> r.raised]
    ELSE LET r == InsertStepKeys(processes, step.step_keys, factory, 1)
         IN  [builds |-> builds, processes |-> r.table, raised |-> r.raised]

\* Lines 65-68: every key of the build table gets the default factory in the
\* process table unless it is there already.
RECURSIVE FillDefault(_, _, _, _)
FillDefault(builds, processes, factory, i) ==
    IF i > Len(builds)
    THEN processes
    ELSE FillDefault(builds, DictSetDefault(processes, builds[i].key, factory),
                     factory, i + 1)

\* ------------------------------------------------------- user functions
\* The product a build function returns; key is 0 when it was called without.
BuildFunc(fn, key) == [fn |-> fn, key |-> key]

\* The state a process function returns.
ProcessFunc(fn, ip, st, key) == Append(st, [fn |-> fn, ip |-> ip, key |-> key])

InitialState == <<>>

FinalProduct(st) == [final |-> st]

NoError == [type |-> "", where |-> ""]

Raise(type, where) == [type |-> type, where |-> where]

\* ----------------------------------------- step.py: the executor factories
\* Faulty variant of BuildExecutor: any other signature is called like the first.
BuildExecutorAnySignature(step, fn, step_key) ==
    IF step.params = 2
    THEN [raised |-> FALSE, key |-> step_key, value |-> BuildFunc(fn, step_key)]
    ELSE [raised |-> FALSE, key |-> 0, value |-> BuildFunc(fn, 0)]

\* Faulty variant of BuildExecutor: the function is handed the first key of its step,
\* not the key of the iteration.
BuildExecutorOwnKey(step, fn, step_key) ==
    IF step.params = 1
    THEN [raised |-> FALSE, key |-> 0, value |-> BuildFunc(fn, 0)]
    ELSE IF step.params = 2
         THEN [raised |-> FALSE, key |-> step.step_keys[1],
               value |-> BuildFunc(fn, step.step_keys[1])]
         ELSE [raised |-> TRUE, key |-> 0, value |-> BuildFunc(fn, 0)]

\* Faulty variant of BuildExecutor: the value of the function is not returned.
BuildExecutorNoReturn(step, fn, step_key) ==
    IF step.params = 1
    THEN [raised |-> FALSE, key |-> 0, value |-> BuildFunc(0, 0)]
    ELSE IF step.params = 2
         THEN [raised |-> FALSE, key |-> step_key, value |-> BuildFunc(0, 0)]
         ELSE [raised |-> TRUE, key |-> 0, value |-> BuildFunc(fn, 0)]

\* build_step.executor_factory(builder)(step_key), for the descriptor that is
\* member fn of the class.
BuildExecutor(step, fn, step_key) ==
    IF step.params = 1
    THEN [raised |-> FALSE, key |-> 0, value |-> BuildFunc(fn, 0)]
    ELSE IF step.params = 2
         THEN [raised |-> FALSE, key |-> step_key, value |-> BuildFunc(fn, step_key)]
         ELSE [raised |-> TRUE, key |-> 0, value |-> BuildFunc(fn, 0)]

\* Faulty variant of ProcessExecutor: the function is handed the initial state, not
\* the state the previous process step returned.
ProcessExecutorStaleState(step, fn, ip, st, step_key) ==
    IF step.params = 3
    THEN [raised |-> FALSE, key |-> 0, value |-> ProcessFunc(fn, ip, InitialState, 0)]
    ELSE IF step.params = 4
         THEN [raised |-> FALSE, key |-> step_key,
               value |-> ProcessFunc(fn, ip, InitialState, step_key)]
         ELSE [raised |-> TRUE, key |-> 0, value |-> st]

\* process_step.executor_factory(builder)(intermediate_product, state, step_key)
ProcessExecutor(step, fn, ip, st, step_key) ==
    IF step.params = 3
    THEN [raised |-> FALSE, key |-> 0, value |-> ProcessFunc(fn, ip, st, 0)]
    ELSE IF step.params = 4
         THEN [raised |-> FALSE, key |-> step_key,
               value |-> ProcessFunc(fn, ip, st, step_key)]
         ELSE [raised |-> TRUE, key |-> 0, value |-> st]

\* A log entry: the user function invoked and what it was handed.
Call(op, fn, id, key, ip, st) ==
    [op |-> op, fn |-> fn, id |-> id, key |-> key, ip |-> ip, st |-> st]

NoProduct == BuildFunc(0, 0)

\* ------------------------------------------------------ the types modelled
\* @build_step(), @build_step(k), @build_step(j, k); the same for process_step.
OneKeyLists == {<<>>} \cup {<<k>> : k \in Keys}

KeyLists == OneKeyLists \cup {<<j, k>> : j, k \in Keys}

\* The parameter counts of the wrapped functions, self included: the two each
\* executor accepts and one it rejects.
BuildParamCounts == 1..3

ProcessParamCounts == 2..4

Descriptors(lists, buildParams, processParams) ==
    {BuildStep(ks, n) : ks \in lists, n \in buildParams}
    \cup {ProcessStep(ks, d, n) : ks \in lists, d \in BOOLEAN, n \in processParams}
    \cup {Method}

Hooks == {"create_initial_state", "evaluate_final_state"}

Slots == DOMAIN MemberNames

DeclaredInOrder == [i \in Slots |-> i]

TypeDecl(ms, ns, ov) == [members |-> ms, namespace |-> ns, overrides |-> ov]

\* Every type whose functions take no step key, declared in sorted order.
RegistrationTypes ==
    {TypeDecl(ms, DeclaredInOrder, Hooks) :
        ms \in [Slots -> Descriptors(KeyLists, {1}, {3})]}

\* One-key steps declared in any order of the class body.
OrderTypes ==
    {TypeDecl(ms, ns, Hooks) :
        ms \in [Slots -> Descriptors(OneKeyLists, {1}, {3})],
        ns \in {p \in [Slots -> Slots] : IsInjective(p)}}

\* One-key steps on a type that leaves a hook of Builder unimplemented.
HookTypes ==
    {TypeDecl(ms, DeclaredInOrder, ov) :
        ms \in [Slots -> Descriptors(OneKeyLists, {1}, {3})],
        ov \in SUBSET Hooks}

\* Two steps whose functions take any number of parameters.
SignatureTypes ==
    {TypeDecl(ms, DeclaredInOrder, Hooks) :
        ms \in {[i \in Slots |-> IF i = Len(MemberNames) THEN Method ELSE m[i]] :
                   m \in [Slots \ {Len(MemberNames)} ->
                             Descriptors(KeyLists, BuildParamCounts, ProcessParamCounts)]}}
\* Three one-key steps whose functions take any number of parameters.
OneKeySignatureTypes ==
    {TypeDecl(ms, DeclaredInOrder, Hooks) :
        ms \in [Slots -> Descriptors(OneKeyLists, BuildParamCounts, ProcessParamCounts)]}

\* The decorators of one key list at most: build_step(...), process_step(...)
\* and process_step(..., default=True), before they wrap a function.
StepDecorators ==
    {BuildStep(ks, 0) : ks \in OneKeyLists}
    \cup {ProcessStep(ks, d, 0) : ks \in OneKeyLists, d \in BOOLEAN}

\* The plain function a decorator of this kind is written above.
Function(kind) == [Method EXCEPT !.params = IF kind = "build_step" THEN 1 ELSE 3]

\* ------------------------------------------------------------------ Init
\* The class statement: the body has run, builder_meta.__init__ begins.
Declares(t) ==
    /\ members = t.members
    /\ decorators = [i \in Slots |-> WrittenAs(t.members[i])]
    /\ namespace = t.namespace
    /\ overrides = t.overrides

\* A type whose first member carries two decorators, beside one more member.
DeclaresReapplied(inner, outer, other) ==
    /\ decorators = [i \in Slots |-> IF i = 1 THEN <<inner, outer>>
                                    ELSE IF i = 2 THEN WrittenAs(other) ELSE <<>>]
    /\ members = [i \in Slots |-> IF i = 1 THEN Decorated(Function(inner.kind),
                                                          <<inner, outer>>)
                                 ELSE IF i = 2 THEN other ELSE Method]
    /\ namespace = DeclaredInOrder
    /\ overrides = Hooks

\* A build() call that has not begun, on an instance of a registered type.
IdleRun ==
    [pc |-> "registered", error |-> NoError, state |-> InitialState,
     step_keys |-> <<>>, key_index |-> 0, intermediate_product |-> NoProduct,
     product |-> FinalProduct(InitialState), hook |-> "", log |-> <<>>]

\* The type derives from Builder alone.
NoBase == [defined |-> FALSE]

\* builder_meta.__init__ begins on a type that derives from Builder alone;
\* no instance has called build().
Starts ==
    /\ parked = IdleRun
    /\ base = NoBase
    /\ pc = "scan_default"
    /\ attr_index = 1
    /\ default_process_executor_factory = 0
    /\ build_executor_factories = <<>>
    /\ process_executor_factories = <<>>
    /\ error = NoError
    /\ state = InitialState
    /\ step_keys = <<>>
    /\ key_index = 0
    /\ intermediate_product = NoProduct
    /\ product = FinalProduct(InitialState)
    /\ hook = ""
    /\ log = <<>>

Init ==
    /\ \/ \E t \in RegistrationTypes : Declares(t)
       \/ \E t \in OrderTypes : Declares(t)
       \/ \E t \in HookTypes : Declares(t)
       \/ \E t \in SignatureTypes : Declares(t)
       \/ \E t \in OneKeySignatureTypes : Declares(t)
       \/ \E inner, outer \in StepDecorators :
             \E other \in Descriptors(OneKeyLists, {1}, {3}) :
                DeclaresReapplied(inner, outer, other)
    /\ Starts

\* ------------------------------------------------- builder_meta.__init__
\* Lines 52-53: isinstance(attr, process_step) and attr.default
IsDefaultProcessStep(attr) == attr.kind = "process_step" /\ attr.default

\* Faulty variant of AlreadyHasDefault: a later default silently replaces the first.
AlreadyHasDefaultIgnored(factory) == FALSE

\* Line 54: default_process_executor_factory is not None
AlreadyHasDefault(factory) == factory # 0

\* Lines 50-57, one attribute of dir(cls) per step.
ScanDefault ==
    /\ pc = "scan_default"
    /\ attr_index <= Len(members)
    /\ LET attr == members[attr_index]
       IN  IF IsDefaultProcessStep(attr)
           THEN IF AlreadyHasDefault(default_process_executor_factory)
                THEN /\ error' = Raise("ValueError", "builder_meta.__init__")
                     /\ pc' = "class_failed"
                     /\ UNCHANGED <<attr_index, default_process_executor_factory>>
                ELSE /\ default_process_executor_factory' = attr_index
                     /\ attr_index' = attr_index + 1
                     /\ UNCHANGED <<pc, error>>
           ELSE /\ attr_index' = attr_index + 1
                /\ UNCHANGED <<pc, error, default_process_executor_factory>>
    /\ UNCHANGED <<typeVars, parked, build_executor_factories, process_executor_factories, runVars>>

ScanDefaultDone ==
    /\ pc = "scan_default"
    /\ attr_index > Len(members)
    /\ pc' = "update_maps"
    /\ attr_index' = 1
    /\ UNCHANGED <<typeVars, parked, tableVars, error, runVars>>

\* Lines 59-63, one attribute per step: the whole update_map call.
UpdateMaps ==
    /\ pc = "update_maps"
    /\ attr_index <= Len(members)
    /\ LET attr == members[attr_index]
           r == update_map(build_executor_factories, process_executor_factories,
                           attr, attr_index)
       IN  IF IsStep(attr)
           THEN /\ build_executor_factories' = r.builds
                /\ process_executor_factories' = r.processes
                /\ IF r.raised
                   THEN /\ error' = Raise("ValueError", "builder_meta.update_map")
                        /\ pc' = "class_failed"
                        /\ UNCHANGED attr_index
                   ELSE /\ attr_index' = attr_index + 1
                        /\ UNCHANGED <<pc, error>>
           ELSE /\ attr_index' = attr_index + 1
                /\ UNCHANGED <<pc, error, build_executor_factories,
                               process_executor_factories>>
    /\ UNCHANGED <<typeVars, parked, default_process_executor_factory, runVars>>

\* Lines 65-68, and the end of __init__: the class exists.
FillDefaults ==
    /\ pc = "update_maps"
    /\ attr_index > Len(members)
    /\ process_executor_factories' =
         IF default_process_executor_factory # 0
         THEN FillDefault(build_executor_factories, process_executor_factories,
                          default_process_executor_factory, 1)
         ELSE process_executor_factories
    /\ pc' = "registered"
    /\ UNCHANGED <<typeVars, parked, attr_index, default_process_executor_factory,
                   build_executor_factories, error, runVars>>

\* ---------------------------------------------------------- Builder.build
\* Faulty variant of Implements: the hooks of Builder return instead of raising.
ImplementsByDefault(method) == TRUE

\* Lines 156-169: the hooks of Builder raise NotImplementedError unless the
\* concrete type overrides them.
Implements(method) == method \in overrides

\* Line 123: state = self.create_initial_state()
CreateInitialState ==
    /\ pc = "registered"
    /\ IF Implements("create_initial_state")
       THEN /\ state' = InitialState
            /\ log' = Append(log, Call("create_initial_state", 0, 0, 0, NoProduct,
                                       InitialState))
            /\ pc' = "filter"
            /\ UNCHANGED error
       ELSE /\ error' = Raise("NotImplementedError", "Builder.create_initial_state")
            /\ pc' = "raised"
            /\ UNCHANGED <<state, log>>
    /\ UNCHANGED <<typeVars, parked, attr_index, tableVars, step_keys, key_index,
                   intermediate_product, product, hook>>

\* Faulty variant of unfiltered_process_step_keys: the keys of the wrong table.
unfiltered_build_step_keys == DictKeys(build_executor_factories)

\* Lines 171-172: a fresh list of the keys of the process table.
unfiltered_process_step_keys == DictKeys(process_executor_factories)

\* What an overriding filter_and_sort_process_step_keys may return.
HookResults == {s \in SeqsUpTo(Keys, MaxKey) : IsInjective(s)}

\* Lines 138-154: the default hook returns the list it received.
filter_and_sort_process_step_keys(process_step_keys) == process_step_keys

\* Lines 174-175: what the hook returned is what the loop runs over.
filtered_and_sorted_process_step_keys(returned) == returned

\* Faulty variant of DictAfterListMutation: the list handed to the hook is
\* the key list of the dict itself, so the keys the hook removes leave the dict.
DictFollowingItsKeyList(d, mutated) ==
    LET Kept(item) == item.key \in Range(mutated)
    IN  SelectSeq(d, Kept)

\* Line 172: list(...) makes a new list of the keys, so the dict keeps its
\* items whatever the hook leaves in the list it received.
DictAfterListMutation(d, mutated) == d

\* What an overriding hook that returned r may leave in the list it
\* received: nothing, what it returns (it worked in place), or what was there.
ListsLeftByHook(received, r) == {<<>>, r, received}

\* Line 128: the keys the loop will run over.  The default hook leaves the
\* list it received as it is and returns it.
FilterAndSort ==
    /\ pc = "filter"
    /\ \E h \in {"default", "override"} :
         \E r \in IF h = "default"
                  THEN {filter_and_sort_process_step_keys(unfiltered_process_step_keys)}
                  ELSE HookResults :
            \E mutated \in IF h = "default"
                            THEN {r}
                            ELSE ListsLeftByHook(unfiltered_process_step_keys, r) :
               /\ hook' = h
               /\ step_keys' = filtered_and_sorted_process_step_keys(r)
               /\ process_executor_factories' =
                     DictAfterListMutation(process_executor_factories, mutated)
    /\ key_index' = 1
    /\ pc' = "build"
    /\ UNCHANGED <<typeVars, parked, attr_index, default_process_executor_factory,
                   build_executor_factories, error, state,
                   intermediate_product, product, log>>

\* Faulty variant of CurrentStepKey: the loop runs over the unfiltered keys.
CurrentStepKeyUnfiltered ==
    IF key_index \in DOMAIN unfiltered_process_step_keys
    THEN unfiltered_process_step_keys[key_index]
    ELSE step_keys[key_index]

\* Line 128: the step_key of the iteration the loop is in.
CurrentStepKey == step_keys[key_index]

\* Lines 130-131: resolve the build executor and call it.
RunBuildStep ==
    /\ pc = "build"
    /\ key_index <= Len(step_keys)
    /\ LET step_key == CurrentStepKey
       IN  IF ~DictHas(build_executor_factories, step_key)
           THEN /\ error' = Raise("KeyError", "build_executor_factories")
                /\ pc' = "raised"
                /\ UNCHANGED <<intermediate_product, log>>
           ELSE LET fn == DictGet(build_executor_factories, step_key)
                    r == BuildExecutor(members[fn], fn, step_key)
                IN  IF r.raised
                    THEN /\ error' = Raise("ValueError", "build_step.executor")
                         /\ pc' = "raised"
                         /\ UNCHANGED <<intermediate_product, log>>
                    ELSE /\ intermediate_product' = r.value
                         /\ log' = Append(log, Call("build", fn, step_key, r.key,
                                                    NoProduct, InitialState))
                         /\ pc' = "process"
                         /\ UNCHANGED error
    /\ UNCHANGED <<typeVars, parked, attr_index, tableVars, state, step_keys, key_index,
                   product, hook>>

\* Lines 133-134: resolve the process executor and call it.
RunProcessStep ==
    /\ pc = "process"
    /\ LET step_key == CurrentStepKey
       IN  IF ~DictHas(process_executor_factories, step_key)
           THEN /\ error' = Raise("KeyError", "process_executor_factories")
                /\ pc' = "raised"
                /\ UNCHANGED <<state, key_index, log>>
           ELSE LET fn == DictGet(process_executor_factories, step_key)
                    r == ProcessExecutor(members[fn], fn, intermediate_product,
                                         state, step_key)
                IN  IF r.raised
                    THEN /\ error' = Raise("ValueError", "process_step.executor")
                         /\ pc' = "raised"
                         /\ UNCHANGED <<state, key_index, log>>
                    ELSE /\ state' = r.value
                         /\ log' = Append(log, Call("process", fn, step_key, r.key,
                                                    intermediate_product, state))
                         /\ key_index' = key_index + 1
                         /\ pc' = "build"
                         /\ UNCHANGED error
    /\ UNCHANGED <<typeVars, parked, attr_index, tableVars, step_keys,
                   intermediate_product, product, hook>>

\* Faulty variant of StateToEvaluate: the state the loop started from.
StateToEvaluateInitial == InitialState

\* Line 136: the argument of evaluate_final_state is the state the loop left.
StateToEvaluate == state

\* Line 136: return self.evaluate_final_state(state)
EvaluateFinalState ==
    /\ pc = "build"
    /\ key_index > Len(step_keys)
    /\ IF Implements("evaluate_final_state")
       THEN /\ product' = FinalProduct(StateToEvaluate)
            /\ log' = Append(log, Call("evaluate_final_state", 0, 0, 0, NoProduct,
                                       StateToEvaluate))
            /\ pc' = "returned"
            /\ UNCHANGED error
       ELSE /\ error' = Raise("NotImplementedError", "Builder.evaluate_final_state")
            /\ pc' = "raised"
            /\ UNCHANGED <<product, log>>
    /\ UNCHANGED <<typeVars, parked, attr_index, tableVars, state, step_keys, key_index,
                   intermediate_product, hook>>

\* builder_meta.__init__ has returned: the type exists.
Registered == pc \in {"registered", "filter", "build", "process", "returned", "raised"}

\* Another thread gets to run: the build() call of the other instance goes
\* on from where it was, this one waits.  The locals of build() belong to
\* the call; the tables belong to the type.
SwitchInstance ==
    /\ Registered
    /\ parked' = [pc |-> pc, error |-> error, state |-> state,
                  step_keys |-> step_keys, key_index |-> key_index,
                  intermediate_product |-> intermediate_product,
                  product |-> product, hook |-> hook, log |-> log]
    /\ pc' = parked.pc
    /\ error' = parked.error
    /\ state' = parked.state
    /\ step_keys' = parked.step_keys
    /\ key_index' = parked.key_index
    /\ intermediate_product' = parked.intermediate_product
    /\ product' = parked.product
    /\ hook' = parked.hook
    /\ log' = parked.log
    /\ UNCHANGED <<typeVars, attr_index, tableVars>>

Next ==
    \/ ScanDefault
    \/ ScanDefaultDone
    \/ UpdateMaps
    \/ FillDefaults
    \/ CreateInitialState
    \/ FilterAndSort
    \/ RunBuildStep
    \/ RunProcessStep
    \/ EvaluateFinalState

Spec == Init /\ [][Next]_vars

\* ------------------------------------------- two instances, two threads
\* A build step under up to two keys and a process step that may be the
\* default, on a type that implements both hooks.
ThreadTypes ==
    {TypeDecl([i \in Slots |-> IF i = 1 THEN b ELSE IF i = 2 THEN p ELSE Method],
              DeclaredInOrder, Hooks) :
        b \in {BuildStep(ks, 2) : ks \in KeyLists},
        p \in {ProcessStep(ks, d, 4) : ks \in OneKeyLists, d \in BOOLEAN}}

InitThreads ==
    /\ \E t \in ThreadTypes : Declares(t)
    /\ Starts

NextThreads ==
    \/ Next
    \/ SwitchInstance

\* Two instances of one type, each in a build() call of its own, interleaved
\* at every step.
SpecThreads == InitThreads /\ [][NextThreads]_vars

\* ------------------------------------------------------- a derived type
\* One-key steps in the first two members of a type that derives from
\* Builder alone; the third name is not a step of it.
BaseTypes ==
    {TypeDecl([i \in Slots |-> IF i = 1 THEN a ELSE IF i = 2 THEN b ELSE Method],
              DeclaredInOrder, Hooks) :
        a, b \in Descriptors(OneKeyLists, {1}, {3})}

\* A name the body of the derived type does not assign.
Inherited == [kind |-> "inherited"]

\* What the body of a derived type may assign to a name: a one-key step.
OwnAttrs == Descriptors(OneKeyLists, {1}, {3}) \ {Method}

\* The bodies of the derived types: the first name may be assigned again,
\* which shadows the member of the base type, the third may be a new step.
DerivedBodies ==
    {[i \in Slots |-> IF i = 1 THEN x ELSE IF i = 2 THEN Inherited ELSE y] :
        x, y \in OwnAttrs \cup {Inherited}}

\* Lines 51 and 60, getattr(cls, attr_name) over dir(cls): the attribute of
\* the derived type where its body assigns the name, else the inherited one.
ResolvedMembers(inherited, body) ==
    [i \in Slots |-> IF body[i] = Inherited THEN inherited[i] ELSE body[i]]

\* Faulty variant of TablesOfNewClass: the assignments of lines 45-46 are
\* missing, so cls.build_executor_factories is the dict of the base type.
TablesOfNewClassInherited(builds, processes) ==
    [builds |-> builds, processes |-> processes, aliased |-> TRUE]

\* Lines 45-46: the type being defined gets two empty dicts of its own.
TablesOfNewClass(builds, processes) ==
    [builds |-> <<>>, processes |-> <<>>, aliased |-> FALSE]

\* class Derived(T): the body has run, builder_meta.__init__ begins on the
\* derived type.  T keeps the tables it has.
DefineSubclass ==
    /\ pc = "registered"
    /\ ~base.defined
    /\ \E body \in DerivedBodies :
         LET t == TablesOfNewClass(build_executor_factories,
                                   process_executor_factories)
         IN  /\ base' = [defined |-> TRUE, members |-> members, body |-> body,
                         builds |-> build_executor_factories,
                         processes |-> process_executor_factories,
                         aliased |-> t.aliased]
             /\ members' = ResolvedMembers(members, body)
             /\ decorators' = [i \in Slots |-> IF body[i] = Inherited
                                               THEN decorators[i]
                                               ELSE WrittenAs(body[i])]
             /\ build_executor_factories' = t.builds
             /\ process_executor_factories' = t.processes
    /\ default_process_executor_factory' = 0
    /\ attr_index' = 1
    /\ pc' = "scan_default"
    /\ UNCHANGED <<namespace, overrides, error, runVars, parked>>

InitDerived ==
    /\ \E t \in BaseTypes : Declares(t)
    /\ Starts

NextDerived ==
    \/ Next
    \/ DefineSubclass

\* A type is defined, then a type that derives from it.
SpecDerived == InitDerived /\ [][NextDerived]_vars

\* ======================================================== the properties
\* What the class body declared, read off `members` alone.
BuildSteps == {i \in Slots : members[i].kind = "build_step"}

ProcessSteps == {i \in Slots : members[i].kind = "process_step"}

DefaultSteps == {i \in ProcessSteps : members[i].default}

DeclaredKeys(i) == Range(members[i].step_keys)

\* Two different step definitions of the same kind declare the same key.
SharedKey(steps) ==
    \E i, j \in steps : i # j /\ DeclaredKeys(i) \cap DeclaredKeys(j) # {}

\* One step definition lists a key twice.
RepeatedKey(steps) == \E i \in steps : ~IsInjective(members[i].step_keys)

MultipleDefaultError == Raise("ValueError", "builder_meta.__init__")

DuplicateKeyError == Raise("ValueError", "builder_meta.update_map")

\* The factories a table holds under a key.
FactoriesAt(table, k) == {table[n].factory : n \in {m \in DOMAIN table : table[m].key = k}}

TableKeys(table) == {table[n].key : n \in DOMAIN table}

\* ---- C1
\* The function registered under id, applied the way its signature asks.
ExpectedProduct(id) ==
    LET f == CHOOSE x \in FactoriesAt(build_executor_factories, id) : TRUE
    IN  BuildFunc(f, IF members[f].params = 2 THEN id ELSE 0)

RECURSIVE ExpectedState(_, _)
ExpectedState(ids, k) ==
    IF k = 0
    THEN InitialState
    ELSE LET g == CHOOSE x \in FactoriesAt(process_executor_factories, ids[k]) : TRUE
         IN  ProcessFunc(g, ExpectedProduct(ids[k]), ExpectedState(ids, k - 1),
                         IF members[g].params = 4 THEN ids[k] ELSE 0)

\* C1: when build() returns, the product is evaluate_final_state(s_n), where
\* s_0 is create_initial_state() and s_k is the process function registered
\* under the k-th filtered key applied to the product of the build function
\* registered under that key and to s_(k-1).
Thm_C1_BuildFoldsTheSteps ==
    pc = "returned" =>
        product = FinalProduct(ExpectedState(step_keys, Len(step_keys)))

\* A build() that returned after two step pairs with two build functions.
Wit_C1_TwoPairsReturned ==
    /\ pc = "returned"
    /\ Len(step_keys) = 2
    /\ Len(product.final) = 2
    /\ product.final[1].ip.fn # product.final[2].ip.fn

\* ---- C2
\* C2: a type on which two build step definitions, or two process step
\* definitions, declare the same step key never gets registered: the loop
\* over the steps cannot run to its end, and the error it ends with is the
\* "already in use" ValueError of update_map (the "only one default" check
\* of the first loop comes before it and wins when it applies too).
Thm_C2_DuplicateKeyFails ==
    (SharedKey(BuildSteps) \/ SharedKey(ProcessSteps)) =>
        /\ ~Registered
        /\ ~(pc = "update_maps" /\ attr_index > Len(members))
        /\ (pc = "class_failed" /\ Cardinality(DefaultSteps) <= 1
               => error = DuplicateKeyError)

\* Registration failed on a key two process steps share, after a build step
\* under the same key went in.
Wit_C2_DuplicateProcessKey ==
    /\ pc = "class_failed"
    /\ error = DuplicateKeyError
    /\ SharedKey(ProcessSteps)
    /\ ~SharedKey(BuildSteps)
    /\ build_executor_factories # <<>>

\* ---- C3
\* C3: a type with more than one default process step never gets
\* registered; it fails with the "only one default" ValueError, and it fails
\* in the first loop: neither table has an entry while that loop runs or
\* when it has raised, whatever else is wrong with the type.
Thm_C3_MultipleDefaultsFailFirst ==
    /\ Cardinality(DefaultSteps) > 1 =>
          /\ pc \in {"scan_default", "class_failed"}
          /\ (pc = "class_failed" => error = MultipleDefaultError)
    /\ (pc = "scan_default" \/ error = MultipleDefaultError) =>
          /\ build_executor_factories = <<>>
          /\ process_executor_factories = <<>>

\* Two defaults on a type that also declares a key twice: the default check won.
Wit_C3_TwoDefaultsAndDuplicate ==
    /\ pc = "class_failed"
    /\ error = MultipleDefaultError
    /\ SharedKey(ProcessSteps)
    /\ BuildSteps # {}
    /\ Cardinality(DefaultSteps) = 2

\* ---- C4
\* The process step definitions that declare k themselves.
ExplicitProcessSteps(k) == {i \in ProcessSteps : k \in DeclaredKeys(i)}

\* C4: once a type with a default process step is registered, every key of
\* the build table is a key of the process table; a key no process step
\* declared maps to the default step's factory, and a key a process step
\* declared maps to that step's factory.
Thm_C4_DefaultBackfill ==
    (Registered /\ DefaultSteps # {}) =>
        \A k \in TableKeys(build_executor_factories) :
            /\ k \in TableKeys(process_executor_factories)
            /\ FactoriesAt(process_executor_factories, k) =
                 IF ExplicitProcessSteps(k) = {}
                 THEN DefaultSteps
                 ELSE ExplicitProcessSteps(k)

\* One build step under two keys, an explicit non-default process step for
\* one of them, a default step that got the other.
Wit_C4_BackfillBesideExplicit ==
    /\ pc = "registered"
    /\ \E b \in BuildSteps, e \in ProcessSteps \ DefaultSteps, d \in DefaultSteps :
          \E k1, k2 \in DeclaredKeys(b) :
             /\ k1 # k2
             /\ k1 \in DeclaredKeys(e)
             /\ FactoriesAt(process_executor_factories, k1) = {e}
             /\ FactoriesAt(process_executor_factories, k2) = {d}

\* ---- C5
\* The place of member i in the class body.
DeclaredAt(i) == CHOOSE p \in Slots : namespace[p] = i

Declarers(k) == {i \in BuildSteps \cup ProcessSteps : k \in DeclaredKeys(i)}

Places(ks, k) == {n \in DOMAIN ks : ks[n] = k}

\* Every declaration of key j comes before every declaration of key k.
DeclaredBefore(j, k) ==
    \A a \in Declarers(j), b \in Declarers(k) :
        IF a = b
        THEN \A m \in Places(members[a].step_keys, j),
                n \in Places(members[a].step_keys, k) : m < n
        ELSE DeclaredAt(a) < DeclaredAt(b)

\* C5: with the default hook, build() runs the step keys in the order the
\* class body declared them, whatever the members are called: no key runs
\* before a key that was declared before it.
Cex_C5_RunsInDeclaredOrder ==
    (pc = "returned" /\ hook = "default") =>
        \A p, q \in DOMAIN step_keys :
            p < q => ~DeclaredBefore(step_keys[q], step_keys[p])

\* ---- C6
\* The calls of step functions, in order.
IsStepCall(e) == e.op \in {"build", "process"}

StepCalls == SelectSeq(log, IsStepCall)

InBuild == pc \in {"build", "process", "returned", "raised"} /\ hook # ""

\* The n-th step call is the one the loop owes: the build function, then the
\* process function, registered under the ((n+1) \div 2)-th filtered key.
OwedCall(n, e) ==
    LET id == step_keys[(n + 1) \div 2]
    IN  /\ e.id = id
        /\ IF n % 2 = 1
           THEN e.op = "build" /\ e.fn \in FactoriesAt(build_executor_factories, id)
           ELSE e.op = "process" /\ e.fn \in FactoriesAt(process_executor_factories, id)

\* C6: when the hook returns registered keys, the step functions build() has
\* called are at every moment the first ones of build(k1), process(k1),
\* build(k2), ... over the returned keys in the returned order, so no
\* function of a key left out is ever called; when the loop has run to its
\* end they are all of them.  (A call that raises ends the loop there.)
Thm_C6_RunsExactlyTheReturnedKeys ==
    (InBuild /\ Range(step_keys) \subseteq TableKeys(process_executor_factories)) =>
        /\ Len(StepCalls) <= 2 * Len(step_keys)
        /\ \A n \in DOMAIN StepCalls : OwedCall(n, StepCalls[n])
        /\ \A n \in DOMAIN StepCalls : StepCalls[n].id \in Range(step_keys)
        /\ (key_index > Len(step_keys) => Len(StepCalls) = 2 * Len(step_keys))
        /\ (pc = "returned" => key_index > Len(step_keys))

\* The hook dropped the first of two registered keys, and build() returned
\* having run the other.
Wit_C6_SubsetReturned ==
    /\ pc = "returned"
    /\ hook = "override"
    /\ Len(unfiltered_process_step_keys) = 2
    /\ step_keys = <<unfiltered_process_step_keys[2]>>
    /\ Len(StepCalls) = 2

\* ---- C7
BuildKeyError == Raise("KeyError", "build_executor_factories")

Evaluated == \E n \in DOMAIN log : log[n].op = "evaluate_final_state"

\* C7: the loop never gets past a key that has no build factory: it raises
\* KeyError there, with the process function of that key, the functions of
\* the later keys and evaluate_final_state not called and nothing returned.
\* So a default-hook build() of a type whose process table has a key the
\* build table lacks never returns.
Thm_C7_MissingBuildStepRaises ==
    /\ InBuild =>
          /\ \A p \in DOMAIN step_keys :
                p < key_index => step_keys[p] \in TableKeys(build_executor_factories)
          /\ (pc = "process" =>
                step_keys[key_index] \in TableKeys(build_executor_factories))
    /\ error = BuildKeyError =>
          /\ pc = "raised"
          /\ key_index \in DOMAIN step_keys
          /\ step_keys[key_index] \notin TableKeys(build_executor_factories)
          /\ Len(StepCalls) = 2 * (key_index - 1)
          /\ ~Evaluated
    /\ (hook = "default" /\ ~(TableKeys(process_executor_factories)
                                \subseteq TableKeys(build_executor_factories))) =>
          pc # "returned"

\* The default-hook loop ran one pair and raised at the second key, which
\* only a process step declares.
Wit_C7_RaisedAtSecondKey ==
    /\ error = BuildKeyError
    /\ hook = "default"
    /\ key_index = 2
    /\ Len(StepCalls) = 2

\* ---- C8
CreateNotImplemented == Raise("NotImplementedError", "Builder.create_initial_state")

\* C8: on a type that does not override create_initial_state, build() raises
\* NotImplementedError with no function called at all, steps or not.
Thm_C8_NoInitialStateRaisesFirst ==
    (Registered /\ "create_initial_state" \notin overrides) =>
        /\ pc \in {"registered", "raised"}
        /\ log = <<>>
        /\ (pc = "raised" => error = CreateNotImplemented)

\* build() raised on a type with a build and a process step registered.
Wit_C8_RaisedWithSteps ==
    /\ pc = "raised"
    /\ error = CreateNotImplemented
    /\ build_executor_factories # <<>>
    /\ process_executor_factories # <<>>

\* ---- C9
\* The function of step i has a parameter count its executor rejects.
Malformed(i) ==
    \/ i \in BuildSteps /\ members[i].params \notin {1, 2}
    \/ i \in ProcessSteps /\ members[i].params \notin {3, 4}

BuildArityError == Raise("ValueError", "build_step.executor")

ProcessArityError == Raise("ValueError", "process_step.executor")

\* C9: registration fails only on a duplicate key or a second default, never
\* on a signature; a malformed function is never called; the arity
\* ValueError is raised exactly at the iteration whose key resolves to the
\* malformed function, so a run whose keys leave it out does not raise it.
Thm_C9_ArityFailsAtFirstCall ==
    /\ pc = "class_failed" =>
          \/ SharedKey(BuildSteps) \/ SharedKey(ProcessSteps)
          \/ RepeatedKey(BuildSteps) \/ RepeatedKey(ProcessSteps)
          \/ Cardinality(DefaultSteps) > 1
    /\ \A n \in DOMAIN StepCalls : ~Malformed(StepCalls[n].fn)
    /\ error = BuildArityError =>
          /\ pc = "raised"
          /\ \A f \in FactoriesAt(build_executor_factories, step_keys[key_index]) :
                Malformed(f)
          /\ Len(StepCalls) = 2 * (key_index - 1)
    /\ error = ProcessArityError =>
          /\ pc = "raised"
          /\ \A f \in FactoriesAt(process_executor_factories, step_keys[key_index]) :
                Malformed(f)
          /\ Len(StepCalls) = 2 * (key_index - 1) + 1

\* A type with a malformed build function registered, and a build() whose
\* hook left its key out returned after running another step.
Wit_C9_MalformedLeftOut ==
    /\ pc = "returned"
    /\ StepCalls # <<>>
    /\ \E i \in BuildSteps :
          /\ Malformed(i)
          /\ DeclaredKeys(i) # {}
          /\ DeclaredKeys(i) \subseteq TableKeys(build_executor_factories)

\* ---- C10
\* C10: a build function of one parameter is called without a key and one of
\* two with the key of the iteration; a process function is called with the
\* product just built, and with the key of the iteration exactly when it has
\* four parameters.
Thm_C10_DispatchPassesCurrentKey ==
    InBuild =>
        \A n \in DOMAIN StepCalls :
            LET e == StepCalls[n]
                id == step_keys[(n + 1) \div 2]
            IN  IF e.op = "build"
                THEN /\ members[e.fn].params = 1 => e.key = 0
                     /\ members[e.fn].params = 2 => e.key = id
                ELSE /\ members[e.fn].params = 3 => e.key = 0
                     /\ members[e.fn].params = 4 => e.key = id
                     /\ n > 1
                     /\ e.ip = BuildFunc(StepCalls[n - 1].fn, StepCalls[n - 1].key)

\* One build step under two keys and a default process step, both taking the
\* key: the second iteration handed both the second key, which the default
\* step never declared.
Wit_C10_SecondKeyToSharedFunctions ==
    /\ pc = "returned"
    /\ Len(StepCalls) = 4
    /\ StepCalls[3].fn = StepCalls[1].fn
    /\ StepCalls[3].key = step_keys[2]
    /\ StepCalls[1].key = step_keys[1]
    /\ StepCalls[4].fn \in DefaultSteps
    /\ StepCalls[4].key = step_keys[2]
    /\ step_keys[2] \notin DeclaredKeys(StepCalls[4].fn)
    /\ StepCalls[4].ip.key = step_keys[2]

\* ---- C11
\* The positions of the log at which a hook was invoked.
CallsOf(op) == {n \in DOMAIN log : log[n].op = op}

\* What the process function of a log entry returned.
ReturnedBy(e) == ProcessFunc(e.fn, e.ip, e.st, e.key)

\* The state the last process function returned; the initial state when no
\* process function ran.
LastProcessResult ==
    IF StepCalls = <<>>
    THEN InitialState
    ELSE ReturnedBy(StepCalls[Len(StepCalls)])

\* C11: in a build() call create_initial_state is invoked once and before
\* every step function: it is the first entry of the log and the only one of
\* its kind, and nothing gets past line 123 without it.  evaluate_final_state
\* is invoked in the build() calls that return and in no other; there it is
\* invoked once, as the last call, on the state the last process function
\* returned, and what it returns is the product.
Thm_C11_HooksBracketTheSteps ==
    /\ CallsOf("create_initial_state") \subseteq {1}
    /\ log # <<>> => log[1].op = "create_initial_state"
    /\ pc \in {"filter", "build", "process", "returned"} =>
          CallsOf("create_initial_state") = {1}
    /\ (pc = "raised" /\ error # CreateNotImplemented) =>
          CallsOf("create_initial_state") = {1}
    /\ pc # "returned" => CallsOf("evaluate_final_state") = {}
    /\ pc = "returned" =>
          /\ CallsOf("evaluate_final_state") = {Len(log)}
          /\ log[Len(log)].st = LastProcessResult
          /\ product = FinalProduct(log[Len(log)].st)

\* A build() that returned after two step pairs: the last call evaluated the
\* state of the second process function, which is not the initial state.
Wit_C11_EvaluatedAfterTwoPairs ==
    /\ pc = "returned"
    /\ Len(StepCalls) = 4
    /\ Len(log) = 6
    /\ log[6].op = "evaluate_final_state"
    /\ Len(log[6].st) = 2

\* ---- C12
BothHooks == overrides = Hooks

EvaluateNotImplemented == Raise("NotImplementedError", "Builder.evaluate_final_state")

\* C12 as stated: on a type that declares no build step (and implements both
\* hooks), a build() call invokes no step function, raises nothing and
\* returns evaluate_final_state(create_initial_state()), whatever process
\* steps the type declares.
Cex_C12_NoBuildStepIsNoOp ==
    (Registered /\ BuildSteps = {} /\ BothHooks) =>
        /\ StepCalls = <<>>
        /\ pc # "raised"
        /\ pc = "returned" => product = FinalProduct(InitialState)

\* C12, amended: on a type that declares no build step a build() call never
\* invokes a step function.  It returns, with
\* evaluate_final_state(create_initial_state()), only when the keys the hook
\* returned are none, as they are under the default hook when no process
\* step declares a key; with both hooks implemented such a call raises
\* nothing.  When the hook returned a key, the call fails with the KeyError
\* of the build lookup at the first key; under the default hook that is the
\* case as soon as a process step declares a key.
Thm_C12_NoBuildStepRunsNoStep ==
    (Registered /\ BuildSteps = {}) =>
        /\ StepCalls = <<>>
        /\ pc \notin {"process"}
        /\ pc = "returned" =>
              /\ step_keys = <<>>
              /\ product = FinalProduct(InitialState)
        /\ pc = "raised" =>
              /\ error \in {CreateNotImplemented, EvaluateNotImplemented, BuildKeyError}
              /\ error = BuildKeyError <=> (step_keys # <<>> /\ key_index = 1)
        /\ (pc = "raised" /\ BothHooks) => step_keys # <<>>
        /\ (hook = "default" /\ \E i \in ProcessSteps : DeclaredKeys(i) # {}) =>
              /\ step_keys # <<>>
              /\ pc \in {"build", "raised"}

\* A type with a keyed process step and no build step: the default-hook
\* build() raised the KeyError of the build lookup.
Wit_C12_KeyedProcessStepOnly ==
    /\ BuildSteps = {}
    /\ BothHooks
    /\ hook = "default"
    /\ pc = "raised"
    /\ error = BuildKeyError
    /\ log = <<Call("create_initial_state", 0, 0, 0, NoProduct, InitialState)>>

\* ---- C13
\* The members written with a decorator above a step definition.
Reapplied == {i \in Slots : Len(decorators[i]) = 2}

\* The keys the decorators above a member name, as the set S1 \cup S2.
DecoratorKeys(i) == UNION {Range(decorators[i][n].step_keys) : n \in DOMAIN decorators[i]}

\* No other step definition of the kind of member i declares a key of its
\* decorators, and the type has one default at most.
NoOtherConflict(i) ==
    /\ \A j \in Slots \ {i} :
          members[j].kind = members[i].kind => DeclaredKeys(j) \cap DecoratorKeys(i) = {}
    /\ Cardinality(DefaultSteps) <= 1

\* C13 as stated: a decorator with the keys S2 applied to a step definition
\* with the keys S1 leaves one definition whose keys are the set S1 \cup S2,
\* a key of both held once; registration succeeds and maps every key of
\* S1 \cup S2 to that definition.
Cex_C13_ReapplicationMergesKeySets ==
    \A i \in Reapplied :
        (NoOtherConflict(i) /\ decorators[i][1].kind = decorators[i][2].kind) =>
            /\ DeclaredKeys(i) = DecoratorKeys(i)
            /\ pc # "class_failed"
            /\ Registered =>
                  \A k \in DecoratorKeys(i) :
                      FactoriesAt(IF members[i].kind = "build_step"
                                  THEN build_executor_factories
                                  ELSE process_executor_factories, k) = {i}

\* ---- C14
\* Member i declares a key that it lists twice or that an earlier member of
\* its own kind declares.
ClashesWithinKind(i) ==
    \/ ~IsInjective(members[i].step_keys)
    \/ \E j \in 1..(i - 1) :
          /\ members[j].kind = members[i].kind
          /\ DeclaredKeys(j) \cap DeclaredKeys(i) # {}

\* No key is declared twice among the build steps, nor among the process steps.
DistinctWithinKind ==
    /\ ~SharedKey(BuildSteps) /\ ~RepeatedKey(BuildSteps)
    /\ ~SharedKey(ProcessSteps) /\ ~RepeatedKey(ProcessSteps)

\* C14: the two tables are separate namespaces.  A type whose keys are
\* distinct among its build steps and distinct among its process steps (and
\* that has one default at most) registers whatever keys the two kinds have
\* in common, every declared key a key of the table of its kind and mapped
\* to its step; and when update_map raises, the step it was given clashes
\* with a step of its own kind.
Thm_C14_TablesAreSeparateNamespaces ==
    /\ (DistinctWithinKind /\ Cardinality(DefaultSteps) <= 1) =>
          /\ pc # "class_failed"
          /\ Registered =>
                /\ \A i \in BuildSteps : \A k \in DeclaredKeys(i) :
                      FactoriesAt(build_executor_factories, k) = {i}
                /\ \A i \in ProcessSteps : \A k \in DeclaredKeys(i) :
                      FactoriesAt(process_executor_factories, k) = {i}
    /\ error = DuplicateKeyError =>
          /\ attr_index \in Slots
          /\ IsStep(members[attr_index])
          /\ ClashesWithinKind(attr_index)

\* A registered type on which a build step and a process step declare the
\* same key: the key is in both tables.
Wit_C14_SameKeyInBothTables ==
    /\ Registered
    /\ \E i \in BuildSteps, j \in ProcessSteps, k \in Keys :
          /\ k \in DeclaredKeys(i) \cap DeclaredKeys(j)
          /\ FactoriesAt(build_executor_factories, k) = {i}
          /\ FactoriesAt(process_executor_factories, k) = {j}

\* ---- C16
\* The state the n-th step call found: what the process call before it
\* returned, the initial state when there is none.
StateBefore(n) == IF n <= 2 THEN InitialState ELSE ReturnedBy(StepCalls[n - 2])

\* C16: within one build() the step functions alternate.  The calls at odd
\* positions are build calls and those at even positions process calls, the
\* (2k-1)-th and the 2k-th both for the k-th key; the process call was handed
\* the product the build call just before it returned and the state the
\* process call before that returned (the initial state for k = 1).  The loop
\* is at a build exactly when as many process calls as build calls have
\* returned, holding the state of the last one, and at a process exactly
\* when one build call more has returned, holding its product.
Thm_C16_BuildAndProcessAlternate ==
    InBuild =>
        /\ \A n \in DOMAIN StepCalls :
              LET e == StepCalls[n]
              IN  /\ e.op = (IF n % 2 = 1 THEN "build" ELSE "process")
                  /\ (n + 1) \div 2 \in DOMAIN step_keys
                  /\ e.id = step_keys[(n + 1) \div 2]
                  /\ n % 2 = 0 =>
                        /\ e.ip = BuildFunc(StepCalls[n - 1].fn, StepCalls[n - 1].key)
                        /\ e.st = StateBefore(n)
        /\ pc = "build" =>
              /\ Len(StepCalls) = 2 * (key_index - 1)
              /\ state = LastProcessResult
        /\ pc = "process" =>
              /\ Len(StepCalls) = 2 * key_index - 1
              /\ intermediate_product =
                    BuildFunc(StepCalls[Len(StepCalls)].fn, StepCalls[Len(StepCalls)].key)
              /\ state = StateBefore(Len(StepCalls) + 1)
        /\ pc = "returned" => Len(StepCalls) = 2 * Len(step_keys)

\* The second build call has returned and its process call is due: the state
\* held is the one the first process call returned.
Wit_C16_BetweenSecondBuildAndProcess ==
    /\ pc = "process"
    /\ key_index = 2
    /\ Len(StepCalls) = 3
    /\ StepCalls[3].op = "build"
    /\ StepCalls[3].fn # StepCalls[1].fn
    /\ state = ReturnedBy(StepCalls[2])
    /\ Len(state) = 1

\* ---- C17
ProcessKeyError == Raise("KeyError", "process_executor_factories")

\* C17 as stated: whatever the hook returned, the process lookup of line 133
\* succeeds, so no build() fails there after the build function of the key ran.
Cex_C17_ProcessLookupNeverFails == error # ProcessKeyError

\* C17, amended: the process lookup succeeds for every key of the process
\* table, so a build() whose hook returned only keys it was handed, as the
\* default hook does, never fails there.  The lookup fails exactly for a key
\* an overriding hook returned that is no key of the process table, and then
\* it fails right after the build function of that key ran.
Thm_C17_ProcessLookupFailsOnlyOnForeignKey ==
    /\ hook = "default" => Range(step_keys) \subseteq TableKeys(process_executor_factories)
    /\ (InBuild /\ Range(step_keys) \subseteq TableKeys(process_executor_factories)) =>
          error # ProcessKeyError
    /\ error = ProcessKeyError =>
          /\ hook = "override"
          /\ key_index \in DOMAIN step_keys
          /\ step_keys[key_index] \notin TableKeys(process_executor_factories)
          /\ step_keys[key_index] \in TableKeys(build_executor_factories)
          /\ StepCalls # <<>>
          /\ StepCalls[Len(StepCalls)].op = "build"
          /\ StepCalls[Len(StepCalls)].id = step_keys[key_index]
    /\ (pc = "process" /\ CurrentStepKey \notin TableKeys(process_executor_factories)) =>
          hook = "override"

\* An overriding hook returned the two keys it was handed in the other order,
\* and both process lookups succeeded.
Wit_C17_ReorderedKeysResolve ==
    /\ pc = "returned"
    /\ hook = "override"
    /\ Len(step_keys) = 2
    /\ step_keys # DictKeys(process_executor_factories)
    /\ Range(step_keys) = TableKeys(process_executor_factories)
    /\ Len(StepCalls) = 4

\* ---- C19
\* The keys of build steps that have no process step on a registered type.
UnpairedBuildKeys ==
    TableKeys(build_executor_factories) \ TableKeys(process_executor_factories)

\* C19: a type without a default process step registers also when a build
\* step declares a key no process step declares: its process table holds the
\* keys the process steps declared and no other.  A default-hook build() on
\* it runs over the keys of the process table, so it never invokes the build
\* function of such a key and never raises at such a key.
Thm_C19_UnpairedBuildStepIsSkipped ==
    /\ (DefaultSteps = {} /\ DistinctWithinKind) => pc # "class_failed"
    /\ (Registered /\ DefaultSteps = {}) =>
          /\ TableKeys(process_executor_factories) =
                UNION {DeclaredKeys(i) : i \in ProcessSteps}
          /\ TableKeys(build_executor_factories) =
                UNION {DeclaredKeys(i) : i \in BuildSteps}
    /\ hook = "default" =>
          /\ step_keys = DictKeys(process_executor_factories)
          /\ \A k \in UnpairedBuildKeys :
                /\ k \notin Range(step_keys)
                /\ \A n \in DOMAIN log : log[n].id # k
                /\ (pc = "raised" /\ key_index \in DOMAIN step_keys) =>
                      step_keys[key_index] # k

\* A default-hook build() returned after running the one paired key of a
\* type that also has a build step under a key without process step.
Wit_C19_UnpairedKeyLeftOut ==
    /\ pc = "returned"
    /\ hook = "default"
    /\ DefaultSteps = {}
    /\ UnpairedBuildKeys # {}
    /\ Len(StepCalls) = 2

\* ---- C20
\* The keys the step definitions of one kind declare, member after member in
\* dir(cls) order and in list order within a member.
RECURSIVE KeysInMemberOrder(_, _)
KeysInMemberOrder(kind, i) ==
    IF i > Len(members)
    THEN <<>>
    ELSE (IF members[i].kind = kind THEN members[i].step_keys ELSE <<>>)
         \o KeysInMemberOrder(kind, i + 1)

\* The build keys no process step declares, in the order of the build keys;
\* none when the type has no default process step.
BackfilledKeyOrder ==
    LET explicit == Range(KeysInMemberOrder("process_step", 1))
        Unclaimed(k) == k \notin explicit
    IN  IF DefaultSteps = {}
        THEN <<>>
        ELSE SelectSeq(KeysInMemberOrder("build_step", 1), Unclaimed)

\* C20: on a registered type the keys of the process table, which is the
\* list handed to the hook and what the default hook returns, are the keys
\* the process steps declare, in the order the members were enumerated,
\* followed by the keys back-filled with the default, in the order of the
\* build table; so under the default hook a key that only the default
\* covers runs after every key a process step declares.
Thm_C20_ExplicitKeysThenBackfilled ==
    Registered =>
        /\ DictKeys(build_executor_factories) = KeysInMemberOrder("build_step", 1)
        /\ DictKeys(process_executor_factories) =
              KeysInMemberOrder("process_step", 1) \o BackfilledKeyOrder
        /\ hook = "default" =>
              /\ step_keys = KeysInMemberOrder("process_step", 1) \o BackfilledKeyOrder
              /\ \A p, q \in DOMAIN step_keys :
                    (ExplicitProcessSteps(step_keys[p]) = {}
                        /\ ExplicitProcessSteps(step_keys[q]) # {}) => q < p

\* One build step under two keys whose second key has a process step: the
\* default-hook build() ran the second key first and the back-filled first
\* key after it.
Wit_C20_BackfilledKeyRunsLast ==
    /\ pc = "returned"
    /\ hook = "default"
    /\ Len(step_keys) = 2
    /\ DictKeys(build_executor_factories) = <<step_keys[2], step_keys[1]>>
    /\ ExplicitProcessSteps(step_keys[1]) # {}
    /\ ExplicitProcessSteps(step_keys[2]) = {}
    /\ Len(StepCalls) = 4

\* ---- C15
\* ExpectedState for the keys of the call that waits.
RECURSIVE ExpectedParkedState(_)
ExpectedParkedState(k) ==
    IF k = 0
    THEN InitialState
    ELSE LET id == parked.step_keys[k]
             f == CHOOSE x \in FactoriesAt(build_executor_factories, id) : TRUE
             g == CHOOSE x \in FactoriesAt(process_executor_factories, id) : TRUE
         IN  ProcessFunc(g, BuildFunc(f, IF members[f].params = 2 THEN id ELSE 0),
                         ExpectedParkedState(k - 1),
                         IF members[g].params = 4 THEN id ELSE 0)

\* Each of the two calls that returned returned the fold over its own keys.
EachReturnsItsOwnFold ==
    /\ pc = "returned" =>
          product = FinalProduct(ExpectedState(step_keys, Len(step_keys)))
    /\ parked.pc = "returned" =>
          parked.product = FinalProduct(ExpectedParkedState(Len(parked.step_keys)))

\* C15: once the type is registered no step of a build() call changes its
\* tables (keys, order, factories, default), however the calls of two
\* instances are interleaved and also when an overriding hook empties or
\* rewrites the list it received; and each call that returns returns the fold of the
\* registered functions over the keys its own hook returned, which is what
\* it returns when it runs alone.
Thm_C15_BuildLeavesTheTablesAlone ==
    /\ [][Registered => tableVars' = tableVars]_vars
    /\ []EachReturnsItsOwnFold

\* Both calls returned after running interleaved, over different keys and
\* with different products.
Wit_C15_TwoInterleavedCallsReturned ==
    /\ pc = "returned"
    /\ parked.pc = "returned"
    /\ hook = "override"
    /\ parked.hook = "default"
    /\ Len(parked.step_keys) = 2
    /\ Len(step_keys) = 1
    /\ product # parked.product
    /\ Len(product.final) = 1
    /\ Len(parked.product.final) = 2

\* ---- C18
\* The tables of the base type as they are now.
BaseBuilds == IF base.aliased THEN build_executor_factories ELSE base.builds

BaseProcesses == IF base.aliased THEN process_executor_factories ELSE base.processes

\* The steps the derived type inherits, and those its body declares.
InheritedSteps == {i \in Slots : base.body[i] = Inherited /\ IsStep(members[i])}

OwnSteps == {i \in Slots : base.body[i] # Inherited}

\* The body of the derived type declares a step under a key of an inherited
\* step of the same kind.
ClashesWithInherited ==
    \E i \in InheritedSteps, j \in OwnSteps :
        /\ members[i].kind = members[j].kind
        /\ DeclaredKeys(i) \cap DeclaredKeys(j) # {}

\* C18: a derived type gets tables of its own, filled when it is defined.
\* While and after it is defined the tables of its base type are what they
\* were.  Once it is registered, every key of every step it inherits or
\* declares is a key of its table of that kind, mapped to that step, and its
\* build table has no other key.  A derived type whose body declares a step
\* under a key of an inherited step of the same kind is never registered; it
\* fails with the "already in use" error (unless it has two defaults, which
\* fails first).
Thm_C18_DerivedTypeHasItsOwnTables ==
    base.defined =>
        /\ BaseBuilds = base.builds
        /\ BaseProcesses = base.processes
        /\ Registered =>
              /\ \A i \in InheritedSteps \cup OwnSteps : \A k \in DeclaredKeys(i) :
                    FactoriesAt(IF members[i].kind = "build_step"
                                THEN build_executor_factories
                                ELSE process_executor_factories, k) = {i}
              /\ TableKeys(build_executor_factories) =
                    UNION {DeclaredKeys(i) : i \in BuildSteps}
        /\ ClashesWithInherited =>
              /\ ~Registered
              /\ ~(pc = "update_maps" /\ attr_index > Len(members))
              /\ (pc = "class_failed" /\ Cardinality(DefaultSteps) <= 1)
                    => error = DuplicateKeyError
        /\ (DistinctWithinKind /\ Cardinality(DefaultSteps) <= 1) => pc # "class_failed"

\* A registered derived type that inherits a build step and a process step
\* and declares a build step of its own under another key: its build table
\* has both keys, the one of its base type still has one.
Wit_C18_DerivedAddsAStep ==
    /\ base.defined
    /\ pc = "returned"
    /\ Cardinality(InheritedSteps) = 2
    /\ OwnSteps = {3}
    /\ Len(base.builds) = 1
    /\ Len(build_executor_factories) = 2
    /\ TableKeys(base.builds) \subseteq TableKeys(build_executor_factories)

====
